---- MODULE Spec2Model ----
(***************************************************************************)
(* Model of MultiLevelMap (src/src/Utils.js lines 94-493): a multi-level   *)
(* Map addressed by a variadic list of keys.  The backing store is one JS  *)
(* Map whose values are either nested Maps or other values.                *)
(*                                                                         *)
(* A JS Map is modelled as a sequence of entries [key, value] in insertion *)
(* order with pairwise distinct keys.  A slot value is the record          *)
(*   [kind |-> "map",  leaf |-> "none", map |-> <<entries>>]  (a Map)      *)
(*   [kind |-> "leaf", leaf |-> s,      map |-> <<>>]         (not a Map)  *)
(* where the leaf "undefined" is the JS value undefined.  Nested Maps are  *)
(* reference objects in JS; the model is a tree, so mutating a child Map   *)
(* in place is modelled by rebuilding the path from the root to it.        *)
(***************************************************************************)
EXTENDS Integers, Sequences, FiniteSets, TLC

\* ---------------------------------------------------------------- bounds
\* Longest key list passed to a method.
MaxPath == 3
\* Largest number of slots (over all levels) the container may hold.
MaxEntries == 4
\* Longest string passed to btoa.
MaxStr == 3

\* The keys the callers use.  Keys are opaque to the container (it only
\* hands them to Map.get/has/set/delete of one level), so each level is
\* given two candidate keys, overlapping from level to level.
Keys == {"a", "b", "c"}
LevelKeys(i) ==
  CASE i % 3 = 1 -> {"a", "b"}
    [] i % 3 = 2 -> {"b", "c"}
    [] OTHER -> {"c", "a"}

Leaf(s) == [kind |-> "leaf", leaf |-> s, map |-> <<>>]
MapVal(m) == [kind |-> "map", leaf |-> "none", map |-> m]
Undefined == Leaf("undefined")

\* Values passed as the last parameter of set: two values that are not Maps
\* and a fresh empty Map object.
Values == {Leaf("1"), Leaf("2"), MapVal(<<>>)}

\* The key lists of length lo..hi the callers pass.
KeySeqs(lo, hi) ==
  UNION {{ks \in [1..n -> Keys] : \A i \in 1..n : ks[i] \in LevelKeys(i)} : n \in lo..hi}

\* The key lists a method is called with: any, and at least one key.
KeyLists == KeySeqs(0, MaxPath)
KeyPaths == KeySeqs(1, MaxPath)

\* Every non-empty key list over Keys, whatever the level.
AllKeyPaths == UNION {[1..n -> Keys] : n \in 1..MaxPath}

\* ------------------------------------------------- the built-in JS Map
\* Map.prototype.has
MapHas(m, k) == \E i \in 1..Len(m) : m[i].key = k

\* Map.prototype.get: undefined when the key is absent.
MapGet(m, k) ==
  IF MapHas(m, k)
  THEN LET i == CHOOSE j \in 1..Len(m) : m[j].key = k IN m[i].value
  ELSE Undefined

\* Variant: setting an existing key moves it to the end.
MapSet_moveToEnd(m, k, v) ==
  LET Keep(e) == e.key # k
  IN Append(SelectSeq(m, Keep), [key |-> k, value |-> v])

\* Map.prototype.set: an existing key keeps its position, a new key is
\* appended.
MapSet(m, k, v) ==
  IF MapHas(m, k)
  THEN [i \in 1..Len(m) |-> IF m[i].key = k THEN [key |-> k, value |-> v] ELSE m[i]]
  ELSE Append(m, [key |-> k, value |-> v])

\* Map.prototype.delete: the Map without the key (the boolean it returns
\* is MapHas before the call).
MapDelete(m, k) ==
  LET Keep(e) == e.key # k IN SelectSeq(m, Keep)

\* `value instanceof Map`
InstanceOfMap(v) == v.kind = "map"

\* -------------------------------------------------------- return values
\* What a method hands back: a slot value, a boolean, a number or an
\* iterator (the sequence of items it will produce).
RetValue(v) == [kind |-> v.kind, leaf |-> v.leaf, map |-> v.map,
                bool |-> FALSE, num |-> 0, items |-> <<>>]
RetUndefined == RetValue(Undefined)
RetBool(b) == [kind |-> "bool", leaf |-> "none", map |-> <<>>,
               bool |-> b, num |-> 0, items |-> <<>>]
RetNum(n) == [kind |-> "num", leaf |-> "none", map |-> <<>>,
              bool |-> FALSE, num |-> n, items |-> <<>>]
RetIter(s) == [kind |-> "iter", leaf |-> "none", map |-> <<>>,
               bool |-> FALSE, num |-> 0, items |-> s]

\* s_EMPTY_ITERATOR: next() is always { done: true }.
s_EMPTY_ITERATOR == RetIter(<<>>)

\* ------------------------------------------------------ s_FIND_CHILD_MAP
\* Walks `map` along `ks`.  The result is
\*   status: "ok" (a Map was reached), "null" (lookup stopped) or "throw"
\*   root:   `map` after the walk (Maps created on the way are kept, also
\*           when the walk throws further down)
\*   child:  the entries of the Map reached (status "ok")
\*   errKey: the key the walk threw at (status "throw")
\* Variant: a created Map is never stored under its key.
RECURSIVE s_FIND_CHILD_MAP_noStore(_, _, _)
s_FIND_CHILD_MAP_noStore(ks, map, create) ==
  IF ks = <<>>
  THEN [status |-> "ok", root |-> map, child |-> map, errKey |-> "none"]
  ELSE
    LET key == Head(ks)
        nextMap == MapGet(map, key)
    IN
      IF InstanceOfMap(nextMap)
      THEN LET r == s_FIND_CHILD_MAP_noStore(Tail(ks), nextMap.map, create)
           IN [r EXCEPT !.root = MapSet(map, key, MapVal(r.root))]
      ELSE IF create
      THEN IF MapHas(map, key)
           THEN [status |-> "throw", root |-> map, child |-> <<>>, errKey |-> key]
           ELSE LET r == s_FIND_CHILD_MAP_noStore(Tail(ks), <<>>, create)
                IN [r EXCEPT !.root = map]
      ELSE [status |-> "null", root |-> map, child |-> <<>>, errKey |-> "none"]

\* Variant: in create mode an existing value is replaced by a new Map
\* instead of throwing.
RECURSIVE s_FIND_CHILD_MAP_noConflict(_, _, _)
s_FIND_CHILD_MAP_noConflict(ks, map, create) ==
  IF ks = <<>>
  THEN [status |-> "ok", root |-> map, child |-> map, errKey |-> "none"]
  ELSE
    LET key == Head(ks)
        nextMap == MapGet(map, key)
    IN
      IF InstanceOfMap(nextMap)
      THEN LET r == s_FIND_CHILD_MAP_noConflict(Tail(ks), nextMap.map, create)
           IN [r EXCEPT !.root = MapSet(map, key, MapVal(r.root))]
      ELSE IF create
      THEN LET r == s_FIND_CHILD_MAP_noConflict(Tail(ks), <<>>, create)
           IN [r EXCEPT !.root = MapSet(map, key, MapVal(r.root))]
      ELSE [status |-> "null", root |-> map, child |-> <<>>, errKey |-> "none"]

\* Variant: `create` defaults to true, so lookups create and throw too.
RECURSIVE s_FIND_CHILD_MAP_alwaysCreate(_, _, _)
s_FIND_CHILD_MAP_alwaysCreate(ks, map, create) ==
  IF ks = <<>>
  THEN [status |-> "ok", root |-> map, child |-> map, errKey |-> "none"]
  ELSE
    LET key == Head(ks)
        nextMap == MapGet(map, key)
    IN
      IF InstanceOfMap(nextMap)
      THEN LET r == s_FIND_CHILD_MAP_alwaysCreate(Tail(ks), nextMap.map, create)
           IN [r EXCEPT !.root = MapSet(map, key, MapVal(r.root))]
      ELSE IF MapHas(map, key)
      THEN [status |-> "throw", root |-> map, child |-> <<>>, errKey |-> key]
      ELSE LET r == s_FIND_CHILD_MAP_alwaysCreate(Tail(ks), <<>>, create)
           IN [r EXCEPT !.root = MapSet(map, key, MapVal(r.root))]

\* Variant: a lookup creates the Maps that are missing (it still answers
\* null at a value that is not a Map).
RECURSIVE s_FIND_CHILD_MAP_lookupCreates(_, _, _)
s_FIND_CHILD_MAP_lookupCreates(ks, map, create) ==
  IF ks = <<>>
  THEN [status |-> "ok", root |-> map, child |-> map, errKey |-> "none"]
  ELSE
    LET key == Head(ks)
        nextMap == MapGet(map, key)
    IN
      IF InstanceOfMap(nextMap)
      THEN LET r == s_FIND_CHILD_MAP_lookupCreates(Tail(ks), nextMap.map, create)
           IN [r EXCEPT !.root = MapSet(map, key, MapVal(r.root))]
      ELSE IF MapHas(map, key)
      THEN IF create
           THEN [status |-> "throw", root |-> map, child |-> <<>>, errKey |-> key]
           ELSE [status |-> "null", root |-> map, child |-> <<>>, errKey |-> "none"]
      ELSE LET r == s_FIND_CHILD_MAP_lookupCreates(Tail(ks), <<>>, create)
           IN [r EXCEPT !.root = MapSet(map, key, MapVal(r.root))]

\* Variant: in create mode a Map already stored under a key is replaced by
\* a new Map instead of being walked into.
RECURSIVE s_FIND_CHILD_MAP_replaces(_, _, _)
s_FIND_CHILD_MAP_replaces(ks, map, create) ==
  IF ks = <<>>
  THEN [status |-> "ok", root |-> map, child |-> map, errKey |-> "none"]
  ELSE
    LET key == Head(ks)
        nextMap == MapGet(map, key)
    IN
      IF InstanceOfMap(nextMap) /\ ~create
      THEN LET r == s_FIND_CHILD_MAP_replaces(Tail(ks), nextMap.map, create)
           IN [r EXCEPT !.root = MapSet(map, key, MapVal(r.root))]
      ELSE IF create
      THEN IF MapHas(map, key) /\ ~InstanceOfMap(nextMap)
           THEN [status |-> "throw", root |-> map, child |-> <<>>, errKey |-> key]
           ELSE LET r == s_FIND_CHILD_MAP_replaces(Tail(ks), <<>>, create)
                IN [r EXCEPT !.root = MapSet(map, key, MapVal(r.root))]
      ELSE [status |-> "null", root |-> map, child |-> <<>>, errKey |-> "none"]

RECURSIVE s_FIND_CHILD_MAP(_, _, _)
s_FIND_CHILD_MAP(ks, map, create) ==
  IF ks = <<>>
  THEN [status |-> "ok", root |-> map, child |-> map, errKey |-> "none"]
  ELSE
    LET key == Head(ks)
        nextMap == MapGet(map, key)
    IN
      IF InstanceOfMap(nextMap)
      THEN LET r == s_FIND_CHILD_MAP(Tail(ks), nextMap.map, create)
           IN [r EXCEPT !.root = MapSet(map, key, MapVal(r.root))]
      ELSE IF create
      THEN IF MapHas(map, key)
           THEN [status |-> "throw", root |-> map, child |-> <<>>, errKey |-> key]
           ELSE LET r == s_FIND_CHILD_MAP(Tail(ks), <<>>, create)
                IN [r EXCEPT !.root = MapSet(map, key, MapVal(r.root))]
      ELSE [status |-> "null", root |-> map, child |-> <<>>, errKey |-> "none"]

\* The root after the Map object reached from it by `ks` has been mutated
\* in place to hold `newChild`.  A Map object that is not reachable from the
\* root by `ks` is not part of the container: mutating it changes nothing.
RECURSIVE StoreChild(_, _, _)
StoreChild(map, ks, newChild) ==
  IF ks = <<>>
  THEN newChild
  ELSE IF InstanceOfMap(MapGet(map, Head(ks)))
  THEN MapSet(map, Head(ks),
              MapVal(StoreChild(MapGet(map, Head(ks)).map, Tail(ks), newChild)))
  ELSE map

\* ----------------------------------------------------------- the methods
\* Each method maps the container and its parameters to the container
\* afterwards, the value returned and the error thrown ("none" if none).
NoInfo == [key |-> "none", keys |-> <<>>]
Outcome(m, rv, e) == [map |-> m, returnValue |-> rv, error |-> e, info |-> NoInfo]

\* Variant: the message names the first key walked, not the key thrown at.
Conflict_firstKey(r, walked) ==
  [map |-> r.root, returnValue |-> RetUndefined, error |-> "ConflictError",
   info |-> [key |-> walked[1], keys |-> walked]]

\* s_FIND_CHILD_MAP threw while walking `walked`: the Error propagates out
\* of the method; its message names the key and JSON.stringify(keys).
Conflict(r, walked) ==
  [map |-> r.root, returnValue |-> RetUndefined, error |-> "ConflictError",
   info |-> [key |-> r.errKey, keys |-> walked]]

Front(ks) == SubSeq(ks, 1, Len(ks) - 1)
Last(ks) == ks[Len(ks)]

\* Variant: the keys are ignored and the whole container is cleared.
clear_all(map, ks) == Outcome(<<>>, RetUndefined, "none")

\* Variant: the Map found is removed from its parent instead of emptied.
clear_deleteKey(map, ks) ==
  IF Len(ks) = 0
  THEN Outcome(<<>>, RetUndefined, "none")
  ELSE LET r == s_FIND_CHILD_MAP(ks, map, FALSE)
       IN IF r.status = "ok"
          THEN Outcome(StoreChild(r.root, Front(ks),
                                  MapDelete(s_FIND_CHILD_MAP(Front(ks), map, FALSE).child, Last(ks))),
                       RetUndefined, "none")
          ELSE Outcome(r.root, RetUndefined, "none")

\* Variant: without keys nothing is cleared.
clear_zeroKeysNoop(map, ks) ==
  IF Len(ks) = 0
  THEN Outcome(map, RetUndefined, "none")
  ELSE LET r == s_FIND_CHILD_MAP(ks, map, FALSE)
       IN IF r.status = "ok"
          THEN Outcome(StoreChild(r.root, ks, <<>>), RetUndefined, "none")
          ELSE Outcome(r.root, RetUndefined, "none")

\* Variant: clear removes the entries that are not Maps and keeps the rest.
clear_keepsMaps(map, ks) ==
  LET IsMapEntry(e) == InstanceOfMap(e.value)
  IN IF Len(ks) = 0
     THEN Outcome(SelectSeq(map, IsMapEntry), RetUndefined, "none")
     ELSE LET r == s_FIND_CHILD_MAP(ks, map, FALSE)
          IN IF r.status = "ok"
             THEN Outcome(StoreChild(r.root, ks, SelectSeq(r.child, IsMapEntry)),
                          RetUndefined, "none")
             ELSE Outcome(r.root, RetUndefined, "none")

clear(map, ks) ==
  IF Len(ks) = 0
  THEN Outcome(<<>>, RetUndefined, "none")
  ELSE LET r == s_FIND_CHILD_MAP(ks, map, FALSE)
       IN IF r.status = "throw"
          THEN Conflict(r, ks)
          ELSE IF r.status = "ok"
          THEN Outcome(StoreChild(r.root, ks, <<>>), RetUndefined, "none")
          ELSE Outcome(r.root, RetUndefined, "none")

\* Variant: the last key is removed from the root, not from the Map found.
delete_fromRoot(map, ks) ==
  IF Len(ks) = 0
  THEN Outcome(map, RetUndefined, "ArgumentError")
  ELSE IF Len(ks) = 1
  THEN Outcome(MapDelete(map, ks[1]), RetBool(MapHas(map, ks[1])), "none")
  ELSE LET r == s_FIND_CHILD_MAP(Front(ks), map, FALSE)
       IN IF r.status = "ok"
          THEN Outcome(MapDelete(map, Last(ks)), RetBool(MapHas(map, Last(ks))), "none")
          ELSE Outcome(r.root, RetBool(FALSE), "none")

\* Variant: a Map left empty by the delete is removed from its parent.
delete_prune(map, ks) ==
  IF Len(ks) = 0
  THEN Outcome(map, RetUndefined, "ArgumentError")
  ELSE IF Len(ks) = 1
  THEN Outcome(MapDelete(map, ks[1]), RetBool(MapHas(map, ks[1])), "none")
  ELSE LET mapKeys == Front(ks)
           r == s_FIND_CHILD_MAP(mapKeys, map, FALSE)
           c2 == MapDelete(r.child, Last(ks))
       IN IF r.status = "ok"
          THEN Outcome(IF c2 = <<>>
                       THEN StoreChild(r.root, Front(mapKeys),
                                       MapDelete(s_FIND_CHILD_MAP(Front(mapKeys), map, FALSE).child,
                                                 Last(mapKeys)))
                       ELSE StoreChild(r.root, mapKeys, c2),
                       RetBool(MapHas(r.child, Last(ks))), "none")
          ELSE Outcome(r.root, RetBool(FALSE), "none")

\* Variant: delete resolves its keys in create mode.
delete_creates(map, ks) ==
  IF Len(ks) = 0
  THEN Outcome(map, RetUndefined, "ArgumentError")
  ELSE IF Len(ks) = 1
  THEN Outcome(MapDelete(map, ks[1]), RetBool(MapHas(map, ks[1])), "none")
  ELSE LET mapKeys == Front(ks)
           r == s_FIND_CHILD_MAP(mapKeys, map, TRUE)
       IN IF r.status = "throw"
          THEN Conflict(r, mapKeys)
          ELSE IF r.status = "ok"
          THEN Outcome(StoreChild(r.root, mapKeys, MapDelete(r.child, Last(ks))),
                       RetBool(MapHas(r.child, Last(ks))), "none")
          ELSE Outcome(r.root, RetBool(FALSE), "none")

delete(map, ks) ==
  IF Len(ks) = 0
  THEN Outcome(map, RetUndefined, "ArgumentError")
  ELSE IF Len(ks) = 1
  THEN Outcome(MapDelete(map, ks[1]), RetBool(MapHas(map, ks[1])), "none")
  ELSE LET mapKeys == Front(ks)
           r == s_FIND_CHILD_MAP(mapKeys, map, FALSE)
       IN IF r.status = "throw"
          THEN Conflict(r, mapKeys)
          ELSE IF r.status = "ok"
          THEN Outcome(StoreChild(r.root, mapKeys, MapDelete(r.child, Last(ks))),
                       RetBool(MapHas(r.child, Last(ks))), "none")
          ELSE Outcome(r.root, RetBool(FALSE), "none")

\* Variant: no check for an empty key list.
get_noArgCheck(map, ks) ==
  IF Len(ks) <= 1
  THEN Outcome(map, RetValue(MapGet(map, IF Len(ks) = 0 THEN "undefined" ELSE ks[1])), "none")
  ELSE LET r == s_FIND_CHILD_MAP(Front(ks), map, FALSE)
       IN IF r.status = "ok"
          THEN Outcome(r.root, RetValue(MapGet(r.child, Last(ks))), "none")
          ELSE Outcome(r.root, RetUndefined, "none")

get(map, ks) ==
  IF Len(ks) = 0
  THEN Outcome(map, RetUndefined, "ArgumentError")
  ELSE IF Len(ks) = 1
  THEN Outcome(map, RetValue(MapGet(map, ks[1])), "none")
  ELSE LET r == s_FIND_CHILD_MAP(Front(ks), map, FALSE)
       IN IF r.status = "throw"
          THEN Conflict(r, Front(ks))
          ELSE IF r.status = "ok"
          THEN Outcome(r.root, RetValue(MapGet(r.child, Last(ks))), "none")
          ELSE Outcome(r.root, RetUndefined, "none")

\* Variant: with several keys the last key is looked up in the root Map.
has_lastKeyInRoot(map, ks) ==
  IF Len(ks) = 0
  THEN Outcome(map, RetUndefined, "ArgumentError")
  ELSE IF Len(ks) = 1
  THEN Outcome(map, RetBool(MapHas(map, ks[1])), "none")
  ELSE LET r == s_FIND_CHILD_MAP(Front(ks), map, FALSE)
       IN IF r.status = "ok"
          THEN Outcome(r.root, RetBool(MapHas(map, Last(ks))), "none")
          ELSE Outcome(r.root, RetBool(FALSE), "none")

has(map, ks) ==
  IF Len(ks) = 0
  THEN Outcome(map, RetUndefined, "ArgumentError")
  ELSE IF Len(ks) = 1
  THEN Outcome(map, RetBool(MapHas(map, ks[1])), "none")
  ELSE LET r == s_FIND_CHILD_MAP(Front(ks), map, FALSE)
       IN IF r.status = "throw"
          THEN Conflict(r, Front(ks))
          ELSE IF r.status = "ok"
          THEN Outcome(r.root, RetBool(MapHas(r.child, Last(ks))), "none")
          ELSE Outcome(r.root, RetBool(FALSE), "none")

\* Variant: only the keys before the last are resolved.
isMap_front(map, ks) ==
  IF Len(ks) = 0
  THEN Outcome(map, RetBool(TRUE), "none")
  ELSE LET r == s_FIND_CHILD_MAP(Front(ks), map, FALSE)
       IN Outcome(r.root, RetBool(r.status = "ok"), "none")

isMap(map, ks) ==
  IF Len(ks) = 0
  THEN Outcome(map, RetBool(TRUE), "none")
  ELSE LET r == s_FIND_CHILD_MAP(ks, map, FALSE)
       IN IF r.status = "throw"
          THEN Conflict(r, ks)
          ELSE Outcome(r.root, RetBool(r.status = "ok"), "none")

\* Variant: the size of the root Map is returned for every Map found.
size_ofRoot(map, ks) ==
  IF Len(ks) = 0
  THEN Outcome(map, RetNum(Len(map)), "none")
  ELSE LET r == s_FIND_CHILD_MAP(ks, map, FALSE)
       IN IF r.status = "ok"
          THEN Outcome(r.root, RetNum(Len(map)), "none")
          ELSE Outcome(r.root, RetNum(0), "none")

size(map, ks) ==
  IF Len(ks) = 0
  THEN Outcome(map, RetNum(Len(map)), "none")
  ELSE LET r == s_FIND_CHILD_MAP(ks, map, FALSE)
       IN IF r.status = "throw"
          THEN Conflict(r, ks)
          ELSE IF r.status = "ok"
          THEN Outcome(r.root, RetNum(Len(r.child)), "none")
          ELSE Outcome(r.root, RetNum(0), "none")

\* The items Map.prototype.keys / values / entries iterate over.
MapKeys(m) == [i \in 1..Len(m) |-> m[i].key]
MapValues(m) == [i \in 1..Len(m) |-> m[i].value]
MapEntries(m) == m

\* Variant: when no Map is found the iterator of the root Map is returned.
keys_defaultRoot(map, ks) ==
  IF Len(ks) = 0
  THEN Outcome(map, RetIter(MapKeys(map)), "none")
  ELSE LET r == s_FIND_CHILD_MAP(ks, map, FALSE)
       IN IF r.status = "ok"
          THEN Outcome(r.root, RetIter(MapKeys(r.child)), "none")
          ELSE Outcome(r.root, RetIter(MapKeys(map)), "none")

keys(map, ks) ==
  IF Len(ks) = 0
  THEN Outcome(map, RetIter(MapKeys(map)), "none")
  ELSE LET r == s_FIND_CHILD_MAP(ks, map, FALSE)
       IN IF r.status = "throw"
          THEN Conflict(r, ks)
          ELSE IF r.status = "ok"
          THEN Outcome(r.root, RetIter(MapKeys(r.child)), "none")
          ELSE Outcome(r.root, s_EMPTY_ITERATOR, "none")

values(map, ks) ==
  IF Len(ks) = 0
  THEN Outcome(map, RetIter(MapValues(map)), "none")
  ELSE LET r == s_FIND_CHILD_MAP(ks, map, FALSE)
       IN IF r.status = "throw"
          THEN Conflict(r, ks)
          ELSE IF r.status = "ok"
          THEN Outcome(r.root, RetIter(MapValues(r.child)), "none")
          ELSE Outcome(r.root, s_EMPTY_ITERATOR, "none")

entries(map, ks) ==
  IF Len(ks) = 0
  THEN Outcome(map, RetIter(MapEntries(map)), "none")
  ELSE LET r == s_FIND_CHILD_MAP(ks, map, FALSE)
       IN IF r.status = "throw"
          THEN Conflict(r, ks)
          ELSE IF r.status = "ok"
          THEN Outcome(r.root, RetIter(MapEntries(r.child)), "none")
          ELSE Outcome(r.root, s_EMPTY_ITERATOR, "none")

\* Variant: every key, the last one included, is walked as a level.
set_offByOne(map, n, ks, v) ==
  IF n < 2
  THEN Outcome(map, RetUndefined, "ArgumentError")
  ELSE IF n = 2
  THEN LET m2 == MapSet(map, ks[1], v) IN Outcome(m2, RetValue(MapVal(m2)), "none")
  ELSE LET r == s_FIND_CHILD_MAP(ks, map, TRUE)
       IN IF r.status = "throw"
          THEN Conflict(r, ks)
          ELSE LET c2 == MapSet(r.child, Last(ks), v)
               IN Outcome(StoreChild(r.root, ks, c2), RetValue(MapVal(c2)), "none")

\* Variant: the root Map is returned whatever Map received the value.
set_returnsRoot(map, n, ks, v) ==
  IF n < 2
  THEN Outcome(map, RetUndefined, "ArgumentError")
  ELSE IF n = 2
  THEN LET m2 == MapSet(map, ks[1], v) IN Outcome(m2, RetValue(MapVal(m2)), "none")
  ELSE LET mapKeys == Front(ks)
           r == s_FIND_CHILD_MAP(mapKeys, map, TRUE)
       IN IF r.status = "throw"
          THEN Conflict(r, mapKeys)
          ELSE LET c2 == MapSet(r.child, Last(ks), v)
                   m2 == StoreChild(r.root, mapKeys, c2)
               IN Outcome(m2, RetValue(MapVal(m2)), "none")

\* set(...params): `n` is params.length; for n >= 2 the parameters are the
\* keys `ks` followed by the value `v`.
set(map, n, ks, v) ==
  IF n = 0
  THEN Outcome(map, RetUndefined, "ArgumentError")
  ELSE IF n = 1
  THEN Outcome(map, RetUndefined, "ArgumentError")
  ELSE IF n = 2
  THEN LET m2 == MapSet(map, ks[1], v) IN Outcome(m2, RetValue(MapVal(m2)), "none")
  ELSE LET mapKeys == Front(ks)
           r == s_FIND_CHILD_MAP(mapKeys, map, TRUE)
       IN IF r.status = "throw"
          THEN Conflict(r, mapKeys)
          ELSE IF r.status = "ok"
          THEN LET c2 == MapSet(r.child, Last(ks), v)
               IN Outcome(StoreChild(r.root, mapKeys, c2), RetValue(MapVal(c2)), "none")
          ELSE Outcome(r.root, RetUndefined, "none")

\* Number of slots of the container, over all levels.
RECURSIVE CountEntries(_)
CountEntries(m) ==
  IF m = <<>> THEN 0
  ELSE 1 + CountEntries(Head(m).value.map) + CountEntries(Tail(m))

\* ------------------------------------------------------------------ btoa
\* The char codes the strings passed to btoa are made of (charCodeAt
\* answers 0..65535): both sides of the 0xFF test, and bytes whose 6-bit
\* slices differ.
CharCodes == {0, 1, 15, 16, 63, 64, 84, 170, 252, 255, 256, 65535}

RECURSIVE StringsOfLen(_)
StringsOfLen(n) ==
  IF n = 0 THEN {<<>>}
  ELSE {Append(s, ch) : s \in StringsOfLen(n - 1), ch \in CharCodes}

\* 'This is a test!' as char codes, and what the test expects for it.
TestString ==
  <<84, 104, 105, 115, 32, 105, 115, 32, 97, 32, 116, 101, 115, 116, 33>>

TestEncoded ==
  <<"V", "G", "h", "p", "c", "y", "B", "p", "c", "y",
    "B", "h", "I", "H", "R", "l", "c", "3", "Q", "h">>

\* The strings passed to btoa.
Strings == UNION {StringsOfLen(n) : n \in 0..MaxStr} \cup {TestString}

\* x & y, x | y, x >> n and x << n of JavaScript on non-negative 32-bit
\* integers.
RECURSIVE BitAnd(_, _)
BitAnd(x, y) ==
  IF x = 0 \/ y = 0 THEN 0
  ELSE (x % 2) * (y % 2) + 2 * BitAnd(x \div 2, y \div 2)

RECURSIVE BitOr(_, _)
BitOr(x, y) ==
  IF x = 0 THEN y
  ELSE IF y = 0 THEN x
  ELSE (IF x % 2 = 1 \/ y % 2 = 1 THEN 1 ELSE 0) + 2 * BitOr(x \div 2, y \div 2)

ShiftRight(x, n) == x \div (2 ^ n)

\* (the operands shifted left are at most 4 bits wide and move by at most 4,
\* far below the 32 bits at which << wraps)
ShiftLeft(x, n) == x * (2 ^ n)

\* a, b, c, d start as null and are reset to null after each full group.
null == -1

s_BTOA_BASE_64_CHARS ==
  <<"A", "B", "C", "D", "E", "F", "G", "H", "I", "J", "K", "L", "M",
    "N", "O", "P", "Q", "R", "S", "T", "U", "V", "W", "X", "Y", "Z",
    "a", "b", "c", "d", "e", "f", "g", "h", "i", "j", "k", "l", "m",
    "n", "o", "p", "q", "r", "s", "t", "u", "v", "w", "x", "y", "z",
    "0", "1", "2", "3", "4", "5", "6", "7", "8", "9", "+", "/">>

\* charAt(val): the character at 0-based index val.
s_BTOA_GET_CHAR(val) == s_BTOA_BASE_64_CHARS[val + 1]

\* An array of len zeros.
s_BTOA_NEW_BINARY(len) == [i \in 1..len |-> 0]

\* The first loop of polyBtoa: copies the char codes of the string into the
\* array, and throws at the first one above 0xFF.
RECURSIVE CopyChars(_, _, _)
CopyChars(string, array, j) ==
  IF j >= Len(string) THEN [thrown |-> FALSE, array |-> array]
  ELSE LET ch == string[j + 1]
       IN IF ch > 255
          THEN [thrown |-> TRUE, array |-> array]
          ELSE CopyChars(string, [array EXCEPT ![j + 1] = ch], j + 1)

\* The second loop of polyBtoa, from index i on; st holds a, b, c, d and
\* answer.
RECURSIVE EncodeLoop(_, _, _)
EncodeLoop(array, i, st) ==
  IF i >= Len(array) THEN st
  ELSE
    LET x == array[i + 1]
    IN CASE i % 3 = 0 ->
              EncodeLoop(array, i + 1,
                 [st EXCEPT !.a = BitAnd(ShiftRight(x, 2), 63),
                            !.b = ShiftLeft(BitAnd(x, 3), 4)])
         [] i % 3 = 1 ->
              EncodeLoop(array, i + 1,
                 [st EXCEPT !.b = BitOr(st.b, BitAnd(ShiftRight(x, 4), 15)),
                            !.c = ShiftLeft(BitAnd(x, 15), 2)])
         [] i % 3 = 2 ->
              LET c2 == BitOr(st.c, BitAnd(ShiftRight(x, 6), 3))
                  d2 == BitAnd(x, 63)
              IN EncodeLoop(array, i + 1,
                    [a |-> null, b |-> null, c |-> null, d |-> null,
                     answer |-> st.answer \o <<s_BTOA_GET_CHAR(st.a),
                                                s_BTOA_GET_CHAR(st.b),
                                                s_BTOA_GET_CHAR(c2),
                                                s_BTOA_GET_CHAR(d2)>>])

\* Variant: the incomplete last group is written without '='.
FinishGroup_noPadding(st) ==
  IF st.a # null
  THEN st.answer \o <<s_BTOA_GET_CHAR(st.a), s_BTOA_GET_CHAR(st.b)>>
          \o (IF st.c = null THEN <<>> ELSE <<s_BTOA_GET_CHAR(st.c)>>)
  ELSE st.answer

\* The tail of polyBtoa: the incomplete last group and its padding.
FinishGroup(st) ==
  IF st.a # null
  THEN st.answer \o <<s_BTOA_GET_CHAR(st.a), s_BTOA_GET_CHAR(st.b)>>
          \o (IF st.c = null THEN <<"=">> ELSE <<s_BTOA_GET_CHAR(st.c)>>)
          \o (IF st.d = null THEN <<"=">> ELSE <<>>)
  ELSE st.answer

\* polyBtoa(array) for a string argument; answer holds the characters of
\* the string returned (answer.join('')).
polyBtoa(string) ==
  LET copy == CopyChars(string, s_BTOA_NEW_BINARY(Len(string)), 0)
  IN IF copy.thrown
     THEN [error |-> "Error", answer |-> <<>>]
     ELSE [error |-> "none",
           answer |-> FinishGroup(
              EncodeLoop(copy.array, 0,
                 [a |-> null, b |-> null, c |-> null, d |-> null,
                  answer |-> <<>>]))]


\* ------------------------------------------------------------- the state
VARIABLES
  internalMap,   \* this._internalMap
  pc,            \* the caller: "ready" to call, or a call has "returned"
  op,            \* the method last called
  args,          \* its key list
  nparams,       \* params.length of that call
  value,         \* the value parameter (set)
  returnValue,   \* what the call returned
  error,         \* what it threw: "none", "ArgumentError", "ConflictError"
  errorInfo,     \* the key and key list named in the Error's message
  before,        \* internalMap when the call was made
  pulled,        \* the values next() has produced from the iterator returned
  iterDone,      \* the last next() on that iterator answered done: true
  str,           \* btoa: the string passed, as its char codes (charCodeAt)
  encoded,       \* btoa: the characters of the string it returned
  btoaError,     \* btoa: "none", or "Error" when it threw
  btoaPc         \* btoa: "ready" to be called, or "returned"

vars == <<internalMap, pc, op, args, nparams, value, returnValue, error, errorInfo,
          before, pulled, iterDone, str, encoded, btoaError, btoaPc>>

btoaVars == <<str, encoded, btoaError, btoaPc>>

mapVars == <<internalMap, pc, op, args, nparams, value, returnValue, error,
             errorInfo, before, pulled, iterDone>>

\* constructor(): this._internalMap = new Map()
InitMap ==
  /\ internalMap = <<>>
  /\ pc = "ready"
  /\ op = "none"
  /\ args = <<>>
  /\ nparams = 0
  /\ value = Undefined
  /\ returnValue = RetUndefined
  /\ error = "none"
  /\ errorInfo = NoInfo
  /\ before = <<>>
  /\ pulled = <<>>
  /\ iterDone = FALSE

\* A new MultiLevelMap; btoa is not called.
Init ==
  /\ InitMap
  /\ str = <<>>
  /\ encoded = <<>>
  /\ btoaError = "none"
  /\ btoaPc = "ready"

\* A call of method `name` with keys ks that produced outcome o.
Call(name, ks, n, v, o) ==
  /\ pc' = "returned"
  /\ op' = name
  /\ args' = ks
  /\ nparams' = n
  /\ value' = v
  /\ before' = internalMap
  /\ internalMap' = o.map
  /\ returnValue' = o.returnValue
  /\ error' = o.error
  /\ errorInfo' = o.info
  /\ UNCHANGED btoaVars
  /\ pulled' = <<>>
  /\ iterDone' = FALSE

Clear ==
  /\ pc = "ready"
  /\ \E ks \in KeyLists :
       Call("clear", ks, Len(ks), Undefined, clear(internalMap, ks))

Delete ==
  /\ pc = "ready"
  /\ \E ks \in KeyLists :
       Call("delete", ks, Len(ks), Undefined, delete(internalMap, ks))

Entries ==
  /\ pc = "ready"
  /\ \E ks \in KeyLists :
       Call("entries", ks, Len(ks), Undefined, entries(internalMap, ks))

Get ==
  /\ pc = "ready"
  /\ \E ks \in KeyLists :
       Call("get", ks, Len(ks), Undefined, get(internalMap, ks))

Has ==
  /\ pc = "ready"
  /\ \E ks \in KeyLists :
       Call("has", ks, Len(ks), Undefined, has(internalMap, ks))

IsMap ==
  /\ pc = "ready"
  /\ \E ks \in KeyLists :
       Call("isMap", ks, Len(ks), Undefined, isMap(internalMap, ks))

KeysIter ==
  /\ pc = "ready"
  /\ \E ks \in KeyLists :
       Call("keys", ks, Len(ks), Undefined, keys(internalMap, ks))

Size ==
  /\ pc = "ready"
  /\ \E ks \in KeyLists :
       Call("size", ks, Len(ks), Undefined, size(internalMap, ks))

ValuesIter ==
  /\ pc = "ready"
  /\ \E ks \in KeyLists :
       Call("values", ks, Len(ks), Undefined, values(internalMap, ks))

\* set with at least one key and a value.
Set ==
  /\ pc = "ready"
  /\ \E ks \in KeyPaths, v \in Values :
       LET o == set(internalMap, Len(ks) + 1, ks, v)
       IN /\ CountEntries(o.map) <= MaxEntries
          /\ Call("set", ks, Len(ks) + 1, v, o)

\* set() and set(p): fewer than two parameters.
SetInvalid ==
  /\ pc = "ready"
  /\ \E ks \in KeySeqs(0, 1) :
       Call("set", ks, Len(ks), Undefined, set(internalMap, Len(ks), ks, Undefined))

\* iterator.next() on the iterator the last call returned: the next item
\* in order, or done: true once every item has been produced (at once for
\* s_EMPTY_ITERATOR and for the iterator of an empty Map).
IterNext ==
  /\ pc = "returned"
  /\ returnValue.kind = "iter"
  /\ ~iterDone
  /\ IF Len(pulled) < Len(returnValue.items)
     THEN /\ pulled' = Append(pulled, returnValue.items[Len(pulled) + 1])
          /\ iterDone' = FALSE
     ELSE /\ pulled' = pulled
          /\ iterDone' = TRUE
  /\ UNCHANGED <<internalMap, pc, op, args, nparams, value, returnValue, error,
                 errorInfo, before>>
  /\ UNCHANGED btoaVars

\* The caller takes the result (or catches the error) and is ready for the
\* next call.
Return ==
  /\ pc = "returned"
  /\ pc' = "ready"
  /\ op' = "none"
  /\ args' = <<>>
  /\ nparams' = 0
  /\ value' = Undefined
  /\ returnValue' = RetUndefined
  /\ error' = "none"
  /\ errorInfo' = NoInfo
  /\ before' = internalMap
  /\ UNCHANGED btoaVars
  /\ pulled' = <<>>
  /\ iterDone' = FALSE
  /\ UNCHANGED internalMap

Next ==
  \/ Clear
  \/ Delete
  \/ Entries
  \/ Get
  \/ Has
  \/ IsMap
  \/ KeysIter
  \/ Set
  \/ SetInvalid
  \/ Size
  \/ ValuesIter
  \/ IterNext
  \/ Return

Spec == Init /\ [][Next]_vars

\* ------------------------------------------------- btoa, called on its own
\* Any of the strings is about to be passed to btoa.
InitBtoa ==
  /\ InitMap
  /\ str \in Strings
  /\ encoded = <<>>
  /\ btoaError = "none"
  /\ btoaPc = "ready"

\* btoa(str), where no native btoa exists: polyBtoa(str).
Btoa ==
  /\ btoaPc = "ready"
  /\ LET r == polyBtoa(str)
     IN /\ encoded' = r.answer
        /\ btoaError' = r.error
  /\ btoaPc' = "returned"
  /\ UNCHANGED str
  /\ UNCHANGED mapVars

NextBtoa == Btoa

SpecBtoa == InitBtoa /\ [][NextBtoa]_vars

\* ------------------------------------------------------------ properties
\* A call of method `name` has just returned (or thrown).
Returned(name) == pc = "returned" /\ op = name

\* What the read methods answer on a container m.
HasIn(m, ks) == has(m, ks).returnValue.bool
GetIn(m, ks) == get(m, ks).returnValue
IsMapIn(m, ks) == isMap(m, ks).returnValue.bool
SizeIn(m, ks) == size(m, ks).returnValue.num

Prefix(ks, i) == SubSeq(ks, 1, i)
IsPrefix(p, ks) == Len(p) <= Len(ks) /\ Prefix(ks, Len(p)) = p
IsProperPrefix(p, ks) == Len(p) < Len(ks) /\ Prefix(ks, Len(p)) = p

\* Every key of ks leads, level by level from m, to an existing Map.
RECURSIVE ResolvesToMap(_, _)
ResolvesToMap(m, ks) ==
  IF ks = <<>> THEN TRUE
  ELSE \E i \in 1..Len(m) :
         /\ m[i].key = Head(ks)
         /\ m[i].value.kind = "map"
         /\ ResolvesToMap(m[i].value.map, Tail(ks))

\* The key paths of the slots of m, over all levels.  Any other path holds
\* nothing in m: has is false, get is undefined and isMap is false for it.
RECURSIVE PathsOf(_)
PathsOf(m) ==
  UNION {{<<m[i].key>>} \cup
           (IF InstanceOfMap(m[i].value)
            THEN {<<m[i].key>> \o q : q \in PathsOf(m[i].value.map)}
            ELSE {}) : i \in 1..Len(m)}

\* The key paths of m that hold a Map.
MapPathsOf(m) == {p \in PathsOf(m) : ResolvesToMap(m, p)}

\* The path ks holds a value that is not a Map.
LeafAt(m, ks) == Len(ks) >= 1 /\ HasIn(m, ks) /\ ~IsMapIn(m, ks)

\* C1: after set(...K, v) has returned without throwing, get(...K) is v and
\* has(...K) is true.
C1_SetThenGetHas ==
  (Returned("set") /\ error = "none") =>
     /\ get(internalMap, args).error = "none"
     /\ GetIn(internalMap, args) = RetValue(value)
     /\ has(internalMap, args).error = "none"
     /\ HasIn(internalMap, args)

\* A set replaced a different value two levels down.
C1_Witness ==
  /\ Returned("set") /\ error = "none"
  /\ Len(args) >= 2
  /\ HasIn(before, args)
  /\ GetIn(before, args) # RetValue(value)

\* C2: a set whose key path has to descend through a slot that holds a leaf
\* value throws the conflict Error and the leaf keeps its value.
C2_ConflictKeepsLeaf ==
  Returned("set") =>
    \A i \in 1..(Len(args) - 1) :
      LeafAt(before, Prefix(args, i)) =>
        /\ error = "ConflictError"
        /\ HasIn(internalMap, Prefix(args, i))
        /\ GetIn(internalMap, Prefix(args, i)) = GetIn(before, Prefix(args, i))

\* A set was stopped by a leaf at the second key of its path.
C2_Witness ==
  /\ Returned("set")
  /\ Len(args) = 3
  /\ LeafAt(before, Prefix(args, 2))
  /\ error = "ConflictError"

\* C3: after a successful set every proper prefix of the key path is a Map;
\* the Maps that came into being are exactly the proper prefixes that were
\* absent before; the full path is not a Map when the value is a leaf.
C3_PrefixMapsCreated ==
  (Returned("set") /\ error = "none") =>
     /\ \A i \in 0..(Len(args) - 1) :
          LET p == Prefix(args, i)
          IN /\ IsMapIn(internalMap, p)
             /\ (i >= 1 /\ ~IsMapIn(before, p)) => ~HasIn(before, p)
     /\ \A p \in PathsOf(before) \cup PathsOf(internalMap) :
          (~IsPrefix(args, p) /\ ~IsProperPrefix(p, args)) =>
             (IsMapIn(internalMap, p) = IsMapIn(before, p))
     /\ ~InstanceOfMap(value) => ~IsMapIn(internalMap, args)

\* A three-key set found its first level and created the second.
C3_Witness ==
  /\ Returned("set") /\ error = "none"
  /\ Len(args) = 3
  /\ IsMapIn(before, Prefix(args, 1))
  /\ ~HasIn(before, Prefix(args, 2))
  /\ IsMapIn(internalMap, Prefix(args, 2))

\* C4: delete, get and has without keys, and set with fewer than two
\* parameters, throw the argument Error and leave the container as it was.
C4_MissingArguments ==
  (pc = "returned" /\ \/ (op \in {"delete", "get", "has"} /\ Len(args) = 0)
                      \/ (op = "set" /\ nparams < 2)) =>
     /\ error = "ArgumentError"
     /\ internalMap = before

\* set was called with a single parameter on a container that holds entries.
C4_Witness ==
  /\ Returned("set") /\ nparams = 1
  /\ error = "ArgumentError"
  /\ before # <<>>

\* C5: clear, isMap, keys, values, entries and size with any keys, and
\* delete, get and has with at least one key, never throw.
C5_OnlySetThrows ==
  (pc = "returned" /\ \/ op \in {"clear", "isMap", "keys", "values", "entries", "size"}
                      \/ (op \in {"delete", "get", "has"} /\ Len(args) >= 1)) =>
     error = "none"

\* delete was called with a path that passes through a leaf.
C5_Witness ==
  /\ Returned("delete") /\ error = "none"
  /\ Len(args) = 3
  /\ LeafAt(before, Prefix(args, 1))

\* The container after set('a', 1) and set('b', 'c', 2) on an empty one.
ScopedClearStart ==
  <<[key |-> "a", value |-> Leaf("1")],
    [key |-> "b", value |-> MapVal(<<[key |-> "c", value |-> Leaf("2")]>>)]>>

\* clear('a') has just been called on that container.
ScopedClearCall ==
  Returned("clear") /\ args = <<"a">> /\ before = ScopedClearStart

\* C6 as stated: after set('a', 1) and set('b', 'c', 2), clear('a') removes
\* 'a' and nothing else: has('a') is false and has('b', 'c') is true.
C6_ClearRemovesKey ==
  ScopedClearCall =>
     /\ ~HasIn(internalMap, <<"a">>)
     /\ HasIn(internalMap, <<"b", "c">>)

\* C6 amended: after set('a', 1) and set('b', 'c', 2), clear('a') changes
\* nothing, 'a' holding a value that is not a Map: has('a') is still true,
\* get('a') is still 1 and has('b', 'c') is still true.
C6_ClearOnLeafKeepsAll ==
  ScopedClearCall =>
     /\ error = "none"
     /\ HasIn(internalMap, <<"a">>)
     /\ GetIn(internalMap, <<"a">>) = RetValue(Leaf("1"))
     /\ HasIn(internalMap, <<"b", "c">>)
     /\ internalMap = before

\* The scenario has run: clear('a') returned on the container built by
\* set('a', 1) and set('b', 'c', 2).
C6_Witness ==
  /\ ScopedClearCall
  /\ SizeIn(internalMap, <<>>) = 2

\* C7: clear with keys that resolve to a Map empties that Map in place
\* (size 0, no key present, still a Map); with keys that are absent or end
\* at or pass through a leaf it leaves the container unchanged.
C7_ClearWithKeys ==
  (Returned("clear") /\ Len(args) >= 1) =>
     IF IsMapIn(before, args)
     THEN /\ SizeIn(internalMap, args) = 0
          /\ \A x \in Keys : ~HasIn(internalMap, args \o <<x>>)
          /\ IsMapIn(internalMap, args)
     ELSE internalMap = before

\* clear emptied a Map two levels down that held an entry.
C7_Witness ==
  /\ Returned("clear")
  /\ Len(args) = 2
  /\ IsMapIn(before, args)
  /\ SizeIn(before, args) > 0
  /\ SizeIn(internalMap, args) = 0

\* C8: after clear() without keys no key path is present and size() is 0;
\* a second clear() leaves the same state.
C8_ClearAll ==
  (Returned("clear") /\ args = <<>>) =>
     /\ \A p \in AllKeyPaths : ~HasIn(internalMap, p)
     /\ SizeIn(internalMap, <<>>) = 0
     /\ clear(internalMap, <<>>).map = internalMap
     /\ clear(internalMap, <<>>).error = "none"

\* clear() was called on a container with three levels.
C8_Witness ==
  /\ Returned("clear") /\ args = <<>>
  /\ \E p \in KeyPaths : Len(p) = 3 /\ HasIn(before, p)
  /\ internalMap = <<>>

\* C9: delete with keys returns true exactly when has of the same keys was
\* true before, and has is false afterwards; when the keys before the last
\* do not resolve to a Map it returns false and changes nothing.
C9_Delete ==
  (Returned("delete") /\ Len(args) >= 1) =>
     /\ returnValue = RetBool(HasIn(before, args))
     /\ ~HasIn(internalMap, args)
     /\ ~IsMapIn(before, Front(args)) =>
          /\ returnValue = RetBool(FALSE)
          /\ internalMap = before

\* delete removed a key from a nested Map.
C9_Witness ==
  /\ Returned("delete")
  /\ Len(args) >= 2
  /\ returnValue = RetBool(TRUE)
  /\ HasIn(before, args)
  /\ internalMap # before

\* C10: isMap() is true; isMap with keys is true exactly when every key
\* resolves, level by level from the root, to an existing Map.
C10_IsMap ==
  Returned("isMap") =>
     /\ error = "none"
     /\ args = <<>> => returnValue = RetBool(TRUE)
     /\ returnValue = RetBool(ResolvesToMap(before, args))
     /\ internalMap = before

\* isMap answered false for a path that ends at a leaf below a Map.
C10_Witness ==
  /\ Returned("isMap")
  /\ Len(args) = 2
  /\ IsMapIn(before, Prefix(args, 1))
  /\ LeafAt(before, args)
  /\ returnValue = RetBool(FALSE)

\* The entry of key k in the Map m, and whether there is one.
KeyIn(m, k) == \E i \in 1..Len(m) : m[i].key = k
EntryOf(m, k) == m[CHOOSE i \in 1..Len(m) : m[i].key = k]

\* The entries of the Map that ks resolves to from m (ResolvesToMap(m, ks)).
RECURSIVE MapAt(_, _)
MapAt(m, ks) ==
  IF ks = <<>> THEN m ELSE MapAt(EntryOf(m, Head(ks)).value.map, Tail(ks))

\* The last key of ks is absent from the Map its other keys resolve to, or
\* those keys do not resolve to a Map.
AbsentAt(m, ks) ==
  \/ ~ResolvesToMap(m, Front(ks))
  \/ ~KeyIn(MapAt(m, Front(ks)), Last(ks))

\* C11: get returns undefined and has returns false when the last key is
\* absent from the Map resolved or a proper prefix does not resolve to a
\* Map; for a key holding a nested Map has is true and get returns that Map.
C11_GetHasLookup ==
  /\ (Returned("get") /\ Len(args) >= 1) =>
        /\ error = "none"
        /\ AbsentAt(before, args) => returnValue = RetUndefined
        /\ ResolvesToMap(before, args) =>
              returnValue = RetValue(MapVal(MapAt(before, args)))
  /\ (Returned("has") /\ Len(args) >= 1) =>
        /\ error = "none"
        /\ AbsentAt(before, args) => returnValue = RetBool(FALSE)
        /\ ResolvesToMap(before, args) => returnValue = RetBool(TRUE)

\* has answered true for a key, two levels down, that holds a Map with an
\* entry.
C11_Witness ==
  /\ Returned("has")
  /\ Len(args) = 2
  /\ ResolvesToMap(before, args)
  /\ MapAt(before, args) # <<>>
  /\ returnValue = RetBool(TRUE)

\* The container after set('k1', 1), set('k1a', 'k2a', 2) and
\* set('k1a', 'k2b', 3) on an empty one, with k1 = a, k1a = b, k2a = b,
\* k2b = c and the third value written as 1 (size does not read values).
SizeExample ==
  <<[key |-> "a", value |-> Leaf("1")],
    [key |-> "b", value |-> MapVal(<<[key |-> "b", value |-> Leaf("2")],
                                     [key |-> "c", value |-> Leaf("1")]>>)]>>

\* C12: size() is the number of keys directly in the root Map, size with
\* keys that resolve to a Map the number of keys directly in that Map, and
\* 0 when the keys do not resolve to a Map; in the example size() is 2 and
\* size('k1a') is 2.
C12_Size ==
  Returned("size") =>
     /\ error = "none"
     /\ returnValue =
          RetNum(IF ResolvesToMap(before, args)
                 THEN Cardinality({k \in Keys : KeyIn(MapAt(before, args), k)})
                 ELSE 0)
     /\ (before = SizeExample /\ args = <<>>) => returnValue = RetNum(2)
     /\ (before = SizeExample /\ args = <<"b">>) => returnValue = RetNum(2)

\* size('k1a') was called on the container of the example.
C12_Witness ==
  /\ Returned("size")
  /\ before = SizeExample
  /\ args = <<"b">>
  /\ returnValue = RetNum(2)

IterOps == {"keys", "values", "entries"}

\* C13: keys, values and entries never throw, and when the Map they target
\* is empty or the keys do not resolve to a Map the iterator produces no
\* value: its first next() answers done.
C13_EmptyIteration ==
  (pc = "returned" /\ op \in IterOps) =>
     /\ error = "none"
     /\ returnValue.kind = "iter"
     /\ (~ResolvesToMap(before, args) \/ MapAt(before, args) = <<>>) =>
          /\ pulled = <<>>
          /\ returnValue.items = <<>>

\* next() answered done on the iterator of values for keys that pass
\* through a leaf.
C13_Witness ==
  /\ Returned("values")
  /\ Len(args) = 2
  /\ LeafAt(before, Prefix(args, 1))
  /\ pulled = <<>>
  /\ iterDone

\* The keys of the level ks of container m, in iteration order (none when
\* ks does not resolve to a Map).
KeysIn(m, ks) == keys(m, ks).returnValue.items

\* What an iterator of method name over the Map m is to produce.
ItemsOf(name, m) ==
  CASE name = "keys" -> [i \in 1..Len(m) |-> m[i].key]
    [] name = "values" -> [i \in 1..Len(m) |-> m[i].value]
    [] name = "entries" -> [i \in 1..Len(m) |-> [key |-> m[i].key, value |-> m[i].value]]

\* C14: the iterator returned by keys, values or entries for a Map produces
\* exactly that Map's current keys, values or entries, in order, and then
\* done; consuming it changes neither the container nor what a new call
\* returns.  The order is insertion order: a set of a key already present
\* leaves the keys of its level in place, a set of a key not present (never
\* set, or deleted since) puts it last, and a delete removes only its key.
C14_IterationOrder ==
  /\ (pc = "returned" /\ op \in IterOps /\ ResolvesToMap(before, args)) =>
        LET full == ItemsOf(op, MapAt(before, args))
        IN /\ Len(pulled) <= Len(full)
           /\ pulled = SubSeq(full, 1, Len(pulled))
           /\ iterDone => pulled = full
           /\ internalMap = before
           /\ returnValue.items = full
  /\ (Returned("set") /\ error = "none") =>
        \A i \in 0..(Len(args) - 1) :
          LET q == Prefix(args, i)
              k == args[i + 1]
          IN KeysIn(internalMap, q) =
               IF HasIn(before, q \o <<k>>)
               THEN KeysIn(before, q)
               ELSE Append(KeysIn(before, q), k)
  /\ (Returned("delete") /\ Len(args) >= 1) =>
        LET Other(k) == k # Last(args)
        IN KeysIn(internalMap, Front(args)) = SelectSeq(KeysIn(before, Front(args)), Other)

\* Both keys of a nested Map were produced, in order, and then done.
C14_Witness ==
  /\ Returned("keys")
  /\ Len(args) = 1
  /\ Len(pulled) = 2
  /\ iterDone
  /\ pulled = <<"c", "b">>

\* C15: set returns the Map that received the value: the root Map for one
\* key, the Map reached by the keys before the last (created if missing)
\* for several; the Map returned holds the value at the last key.
C15_SetReturnsTarget ==
  (Returned("set") /\ error = "none") =>
     /\ returnValue.kind = "map"
     /\ ResolvesToMap(internalMap, Front(args))
     /\ returnValue.map = MapAt(internalMap, Front(args))
     /\ Len(args) = 1 => returnValue.map = internalMap
     /\ KeyIn(returnValue.map, Last(args))
     /\ EntryOf(returnValue.map, Last(args)).value = value

\* A three-key set created both levels and returned the innermost Map.
C15_Witness ==
  /\ Returned("set") /\ error = "none"
  /\ Len(args) = 3
  /\ ~HasIn(before, Prefix(args, 1))
  /\ returnValue.map = <<[key |-> args[3], value |-> value]>>
  /\ returnValue.map # internalMap

ReadOps == {"get", "has", "isMap", "size", "keys", "values", "entries"}

\* C16: get, has, isMap, size, keys, values and entries leave the container
\* as it was, whether or not the keys resolve; no lookup creates a Map.
C16_ReadsArePure ==
  (pc = "returned" /\ op \in ReadOps) =>
     /\ internalMap = before
     /\ returnValue.kind # "map" \/ ResolvesToMap(before, args)

\* get was called with three keys of which the first is absent, on a
\* container that has entries.
C16_Witness ==
  /\ Returned("get")
  /\ Len(args) = 3
  /\ before # <<>>
  /\ ~HasIn(before, Prefix(args, 1))
  /\ returnValue = RetUndefined

\* The container after set('x', 'y', 1) on an empty one, with x = a, y = b.
PruneExample == <<[key |-> "a", value |-> MapVal(<<[key |-> "b", value |-> Leaf("1")]>>)]>>

\* C17: delete does not prune: after set('x', 'y', 1), delete('x', 'y')
\* returns true, has('x', 'y') is false, isMap('x') is true and size('x')
\* is 0; and delete never removes a key other than the last key given:
\* every path that does not start with the keys given is as before.
C17_DeleteDoesNotPrune ==
  (Returned("delete") /\ Len(args) >= 1) =>
     /\ (before = PruneExample /\ args = <<"a", "b">>) =>
          /\ returnValue = RetBool(TRUE)
          /\ ~HasIn(internalMap, <<"a", "b">>)
          /\ IsMapIn(internalMap, <<"a">>)
          /\ SizeIn(internalMap, <<"a">>) = 0
     /\ \/ internalMap = before
        \/ \A p \in PathsOf(before) \cup PathsOf(internalMap) :
          ~IsPrefix(args, p) =>
             /\ HasIn(internalMap, p) = HasIn(before, p)
             /\ GetIn(internalMap, p) = GetIn(before, p) \/ IsProperPrefix(p, args)
     /\ \A i \in 1..(Len(args) - 1) :
          IsMapIn(before, Prefix(args, i)) => IsMapIn(internalMap, Prefix(args, i))

\* delete('x', 'y') returned true on the container of the example and left
\* the Map of 'x' in place.
C17_Witness ==
  /\ Returned("delete")
  /\ before = PruneExample
  /\ args = <<"a", "b">>
  /\ internalMap = <<[key |-> "a", value |-> MapVal(<<>>)]>>

\* A set has thrown the conflict Error.
SetConflict == Returned("set") /\ error = "ConflictError"

\* The first position of the key list at which the container held a value
\* that is not a Map.
FirstLeaf(m, ks) ==
  CHOOSE i \in 1..Len(ks) :
    /\ LeafAt(m, Prefix(ks, i))
    /\ \A j \in 1..(i - 1) : ~LeafAt(m, Prefix(ks, j))

\* C18 as stated: the Error thrown by set names the offending key and the
\* full key list passed to set, the last key included.
C18_ErrorCarriesFullPath ==
  SetConflict =>
     /\ errorInfo.key = args[FirstLeaf(before, Front(args))]
     /\ errorInfo.keys = args

\* C18 amended: the Error thrown by set names the offending key and the key
\* list that was being resolved, which is the keys passed to set without
\* the last one.
C18_ErrorCarriesWalkedKeys ==
  SetConflict =>
     /\ \E i \in 1..(Len(args) - 1) : LeafAt(before, Prefix(args, i))
     /\ errorInfo.key = args[FirstLeaf(before, Front(args))]
     /\ errorInfo.keys = Front(args)

\* A three-key set threw at its second key.
C18_Witness ==
  /\ SetConflict
  /\ Len(args) = 3
  /\ errorInfo.key = args[2]
  /\ args[2] # args[1]
  /\ errorInfo.keys = <<args[1], args[2]>>

\* The key paths that held a Map when the last call was made and no longer
\* do.
MapsGone == MapPathsOf(before) \ MapPathsOf(internalMap)

\* C20 as stated: a nested Map ceases to exist only through a delete of its
\* key or of a key above it, or through a clear of the container or of a
\* level above it; no other method, set included, makes it cease to exist.
C20_OnlyDeleteOrClearDestroys ==
  pc = "returned" =>
     \A p \in MapsGone :
           \/ op = "delete" /\ IsPrefix(args, p)
           \/ op = "clear" /\ IsProperPrefix(args, p)

\* C20 amended: a nested Map ceases to exist only through a delete of its
\* key or of a key above it, through a clear of the container or of a level
\* above it, or through a set that returns and whose keys name its slot or
\* a slot above it (the set replaces what the slot held); the read methods
\* destroy nothing.
C20_OnlyDeleteClearOrSetDestroys ==
  pc = "returned" =>
     IF op \in ReadOps
     THEN internalMap = before
     ELSE \A p \in MapsGone :
            \/ op = "delete" /\ IsPrefix(args, p)
            \/ op = "clear" /\ IsProperPrefix(args, p)
            \/ op = "set" /\ error = "none" /\ IsPrefix(args, p)

\* A one-key set of a value that is not a Map replaced a Map that held a
\* nested Map.
C20_Witness ==
  /\ Returned("set") /\ error = "none"
  /\ Len(args) = 1
  /\ ~InstanceOfMap(value)
  /\ \E p \in MapsGone : Len(p) = 2 /\ IsProperPrefix(args, p)

\* The key paths that hold a Map now and did not when the last call was
\* made.
MapsNew == MapPathsOf(internalMap) \ MapPathsOf(before)

\* C21: a Map comes into being in the container only through a set that
\* returns, and, the Map passed as the value aside (it is stored under the
\* full key path, not created), only under a proper prefix of a key path of
\* two or more keys, at a slot that was absent, holding nothing but the next
\* key; a Map that a prefix already held keeps every entry it had, only the
\* entry of the next key may change; a single-key set of a value that is
\* not a Map brings no Map into being.  (A call that left the container as it
\* was brought nothing into being and changed no entry.)
C21_MapsCreatedOnlyBySet ==
  (pc = "returned" /\ internalMap # before) =>
     /\ \A p \in MapsNew :
          /\ op = "set"
          /\ error = "none"
          /\ \/ /\ Len(args) >= 2
                /\ Len(p) >= 1
                /\ IsProperPrefix(p, args)
                /\ p \notin PathsOf(before)
                /\ Len(MapAt(internalMap, p)) = 1
                /\ MapAt(internalMap, p)[1].key = args[Len(p) + 1]
             \/ /\ p = args
                /\ InstanceOfMap(value)
     /\ (op = "set" /\ error = "none") =>
          \A i \in 1..(Len(args) - 1) :
             LET p == Prefix(args, i)
             IN p \in PathsOf(before) =>
                  /\ p \in MapPathsOf(before)
                  /\ \A j \in 1..Len(MapAt(before, p)) :
                       LET e == MapAt(before, p)[j]
                       IN /\ KeyIn(MapAt(internalMap, p), e.key)
                          /\ e.key # args[i + 1] =>
                               EntryOf(MapAt(internalMap, p), e.key) = e
     /\ (op = "set" /\ Len(args) = 1 /\ ~InstanceOfMap(value)) => MapsNew = {}

\* A three-key set of a leaf value on a container that has entries brought
\* two Maps into being, at its first key and at its first two keys.
C21_Witness ==
  /\ Returned("set") /\ error = "none"
  /\ Len(args) = 3
  /\ ~InstanceOfMap(value)
  /\ before # <<>>
  /\ MapsNew = {Prefix(args, 1), Prefix(args, 2)}

\* Nothing is found at the key path P of m: has is false, get is undefined,
\* isMap is false and size is 0.
NothingAt(m, P) ==
  /\ ~HasIn(m, P)
  /\ GetIn(m, P) = RetUndefined
  /\ ~IsMapIn(m, P)
  /\ SizeIn(m, P) = 0

\* C22: no Map outlives its parent: after delete(K) of a key that held a
\* Map, isMap(K) is false and nothing is found at any path that extends K;
\* after clear() or a clear of a level, nothing is found at any path below
\* the level cleared, the Maps it held and the paths that extend them
\* included.
C22_NoMapOutlivesParent ==
  /\ (Returned("delete") /\ Len(args) >= 1 /\ IsMapIn(before, args)) =>
        /\ ~IsMapIn(internalMap, args)
        /\ \A P \in AllKeyPaths :
              IsProperPrefix(args, P) => NothingAt(internalMap, P)
  /\ (Returned("clear") /\ IsMapIn(before, args)) =>
        \A P \in AllKeyPaths :
           IsProperPrefix(args, P) => NothingAt(internalMap, P)

\* A one-key clear emptied a level that held a Map with an entry of its own.
C22_Witness ==
  /\ Returned("clear")
  /\ Len(args) = 1
  /\ \E P \in MapPathsOf(before) :
        /\ Len(P) = 2
        /\ IsProperPrefix(args, P)
        /\ MapAt(before, P) # <<>>
  /\ IsMapIn(internalMap, args)
  /\ SizeIn(internalMap, args) = 0

\* The standard base64 encoding (RFC 4648) of a sequence of bytes: the bits
\* of the bytes, most significant first, are cut into groups of 6 (the last
\* one filled with zero bits), each group is written as the character of
\* the alphabet with that index, and '=' is added until the length is a
\* multiple of 4.
ByteBits(byte) == [k \in 1..8 |-> (byte \div (2 ^ (8 - k))) % 2]

RECURSIVE BitsOf(_)
BitsOf(bytes) ==
  IF bytes = <<>> THEN <<>>
  ELSE ByteBits(Head(bytes)) \o BitsOf(Tail(bytes))

ZeroFilled(bits) == bits \o [k \in 1..((6 - (Len(bits) % 6)) % 6) |-> 0]

SextetAt(bits, g) ==
  32 * bits[6 * g + 1] + 16 * bits[6 * g + 2] + 8 * bits[6 * g + 3]
     + 4 * bits[6 * g + 4] + 2 * bits[6 * g + 5] + bits[6 * g + 6]

StandardBase64(bytes) ==
  LET bits == ZeroFilled(BitsOf(bytes))
      chars == [g \in 1..(Len(bits) \div 6) |->
                   s_BTOA_BASE_64_CHARS[SextetAt(bits, g - 1) + 1]]
  IN chars \o [k \in 1..((4 - (Len(chars) % 4)) % 4) |-> "="]

Ceil3(n) == (n + 2) \div 3

\* The number of '=' characters in a sequence of characters.
RECURSIVE PadCount(_)
PadCount(chars) ==
  IF chars = <<>> THEN 0
  ELSE (IF Head(chars) = "=" THEN 1 ELSE 0) + PadCount(Tail(chars))

IsLatin1(string) == \A j \in 1..Len(string) : string[j] <= 255

\* C19: btoa (the polyfill) of a string whose char codes are all <= 0xFF
\* returns its standard base64 encoding: 4 * ceil(n / 3) characters, every
\* 3 bytes written as the 4 alphabet characters of their 6-bit slices, and
\* the end padded with '==' when n mod 3 = 1, '=' when n mod 3 = 2 and
\* nothing when n mod 3 = 0 (the string of the test gives what the test
\* expects); a string with a char code above 0xFF makes it throw.
C19_BtoaIsBase64 ==
  btoaPc = "returned" =>
     IF IsLatin1(str)
     THEN LET n == Len(str)
          IN /\ btoaError = "none"
             /\ encoded = StandardBase64(str)
             /\ Len(encoded) = 4 * Ceil3(n)
             /\ \A g \in 0..((n \div 3) - 1) :
                   LET x == str[3 * g + 1]
                       y == str[3 * g + 2]
                       z == str[3 * g + 3]
                   IN /\ encoded[4 * g + 1] = s_BTOA_BASE_64_CHARS[(x \div 4) + 1]
                      /\ encoded[4 * g + 2] =
                            s_BTOA_BASE_64_CHARS[(x % 4) * 16 + (y \div 16) + 1]
                      /\ encoded[4 * g + 3] =
                            s_BTOA_BASE_64_CHARS[(y % 16) * 4 + (z \div 64) + 1]
                      /\ encoded[4 * g + 4] = s_BTOA_BASE_64_CHARS[(z % 64) + 1]
             /\ PadCount(encoded) = (3 - (n % 3)) % 3
             /\ \A k \in 1..PadCount(encoded) :
                   encoded[Len(encoded) + 1 - k] = "="
             /\ (str = TestString => encoded = TestEncoded)
     ELSE btoaError = "Error"

\* btoa returned for a string of two bytes: three alphabet characters and
\* one '='.
C19_Witness ==
  /\ btoaPc = "returned"
  /\ btoaError = "none"
  /\ Len(str) = 2
  /\ Len(encoded) = 4
  /\ encoded[3] # "="
  /\ encoded[4] = "="

====
